---------------------------- MODULE Spec2Model ----------------------------
(***************************************************************************)
(* service-builder: the #[builder] code generator and the builder it       *)
(* generates.                                                              *)
(*                                                                         *)
(* One synthesis pass reads the annotations of a record type               *)
(* (FieldAttributes::from_field), resolves per field what the two          *)
(* finalization methods do (expand_builder) and emits the builder.  The    *)
(* emitted builder is then run: T::builder(), chainable setters, build()   *)
(* or build_with_defaults().                                               *)
(*                                                                         *)
(* Values are abstract: a field value is a string, an Option<T> is the     *)
(* empty sequence (None) or a one-element sequence (Some(v)).              *)
(***************************************************************************)
EXTENDS Naturals, Sequences, FiniteSets, TLC

VARIABLES
    pc,            \* "declared" | "failed" | "expanded" | "building" | "done"
    shape,         \* what the attribute is on: "named" | "tuple" | "enum"
    fields,        \* the record's named fields, in declaration order
    struct_attrs,  \* the entries of the struct-level builder(...) attribute
    code,          \* what expand_builder has emitted
    builder,       \* the builder's slots: participating field name -> Option
    calls,         \* the chainable setter calls made so far, oldest first
    result,        \* what the finalization method returned
    service,       \* the finished record the caller holds, once returned
    accessed       \* the last get_/set_ call on it, and the last set_ before

vars == <<pc, shape, fields, struct_attrs, code, builder, calls, result,
          service, accessed>>

----------------------------------------------------------------------------
(* Bounds *)

MaxFields == 2

MaxCalls == 3

MaxKeys == 2

MaxEntries == 1

----------------------------------------------------------------------------
(* Annotation syntax *)

\* One key of a builder(...) list: a path and, for `path = "text"`, the text.
Key(p, v) == [path |-> p, value |-> v]

Bare(p) == Key(p, "")

\* default = "10_000", the expression of tests/default_values_test.rs
DefaultExpr == Key("default", "10_000")

FieldNames == <<"a", "b", "c", "d", "e">>

SeqsUpTo(S, n) == UNION {[1..k -> S] : k \in 0..n}

\* The field annotations the builder runs are explored with.
Annotations ==
    { <<>>,
      <<Bare("optional")>>,
      <<Bare("default")>>,
      <<DefaultExpr>>,
      <<Bare("skip")>>,
      <<Bare("optional"), DefaultExpr>>,
      <<DefaultExpr, Bare("optional")>>,
      <<Bare("optional"), Bare("default")>>,
      <<Bare("skip"), Bare("optional")>>,
      <<Bare("skip"), DefaultExpr>> }

\* Every key from_field recognizes.
AllKeys ==
    { Bare("getter"), Bare("setter"), Bare("skip"), Bare("optional"),
      Bare("default"), DefaultExpr }

\* A token that is no path, a value on a key that takes none, and a default
\* expression that does not parse as a token stream.
MalformedKeys == { Bare("42"), Key("getter", "x"), Key("default", "(") }

\* A struct-level entry name(metas): the field it names and its nested list.
StructEntries ==
    { [name |-> n, metas |-> m] :
        n \in {"a", "zz"},
        m \in { <<>>, <<"getter">>, <<"setter">>, <<"getter", "setter">> } }

\* Entries whose nested list holds a literal where a Meta is expected.
MalformedEntries == { [name |-> n, metas |-> <<"42">>] : n \in {"a", "zz"} }

\* The values a caller passes to a chainable setter.
Values == {"v1", "v2"}

\* T::default()
TraitDefault == "Default::default()"

\* The None a field of type Option<U> holds.
NoneValue == "None"

\* The value the default expression's source text denotes once compiled.
Eval(expr) == IF expr = "10_000" THEN "10000" ELSE expr

----------------------------------------------------------------------------
(* field_attributes.rs                                                     *)
(*                                                                         *)
(* builder.rs reads attrs.default (a DefaultValue) and attrs.optional.     *)
(* The field_attributes.rs at hand declares neither and its closure has no *)
(* branch for the `default` key; MarkOptional and ApplyDefaultKey supply   *)
(* them as section 4.1 of the specification describes them.                *)

NoDefault == [tag |-> "None", expr |-> ""]

DefaultValueDefault == [tag |-> "Default", expr |-> ""]

DefaultValueExpression(e) == [tag |-> "Expression", expr |-> e]

\* FieldAttributes { builder: true, required: true, ..Default::default() }
InitialAttributes ==
    [ getter |-> FALSE, setter |-> FALSE, builder |-> TRUE, required |-> TRUE,
      default |-> NoDefault, optional |-> FALSE ]

\* The `optional` key also records that the field was marked optional.
MarkOptional(attrs) == [attrs EXCEPT !.optional = TRUE]

\* The `default` key: bare selects the trait default, `= "text"` the
\* expression; either way the field stops being required.
ApplyDefaultKey(attrs, key) ==
    [attrs EXCEPT !.required = FALSE,
                  !.default = IF key.value = ""
                                 THEN DefaultValueDefault
                                 ELSE DefaultValueExpression(key.value)]

\* The closure handed to parse_nested_meta, for one key.
ApplyFieldKeyMutReplaces(attrs, key) ==
    IF key.path = "getter" THEN [InitialAttributes EXCEPT !.getter = TRUE]
    ELSE IF key.path = "setter" THEN [InitialAttributes EXCEPT !.setter = TRUE]
    ELSE IF key.path = "skip" THEN [InitialAttributes EXCEPT !.builder = FALSE]
    ELSE IF key.path = "optional"
        THEN MarkOptional([InitialAttributes EXCEPT !.required = FALSE])
    ELSE IF key.path = "default" THEN ApplyDefaultKey(InitialAttributes, key)
    ELSE attrs

ApplyFieldKey(attrs, key) ==
    IF key.path = "getter" THEN [attrs EXCEPT !.getter = TRUE]
    ELSE IF key.path = "setter" THEN [attrs EXCEPT !.setter = TRUE]
    ELSE IF key.path = "skip" THEN [attrs EXCEPT !.builder = FALSE]
    ELSE IF key.path = "optional"
        THEN MarkOptional([attrs EXCEPT !.required = FALSE])
    ELSE IF key.path = "default" THEN ApplyDefaultKey(attrs, key)
    ELSE attrs

\* The closure leaves a `= "text"` it does not read in the input.
LeavesValueUnread(key) == key.value # "" /\ key.path # "default"

\* parse_nested_meta reads a path before it calls the closure.
NotAPath(key) == key.path = "42"

\* let _ = attr.parse_nested_meta(..): keys are applied left to right; a
\* token that is no path, or an unread `= "text"`, ends the parse and the
\* error is dropped.
RECURSIVE ParseNestedMeta(_, _, _)
ParseNestedMeta(attrs, keys, i) ==
    IF i > Len(keys) THEN attrs
    ELSE IF NotAPath(keys[i]) THEN attrs
    ELSE IF LeavesValueUnread(keys[i]) THEN ApplyFieldKey(attrs, keys[i])
    ELSE ParseNestedMeta(ApplyFieldKey(attrs, keys[i]), keys, i + 1)

\* FieldConfig::parse: the name and which of getter/setter the list holds.
FieldConfigParse(entry) ==
    [ name |-> entry.name,
      getter |-> \E j \in 1..Len(entry.metas) : entry.metas[j] = "getter",
      setter |-> \E j \in 1..Len(entry.metas) : entry.metas[j] = "setter" ]

\* One struct-level entry against a field.
MergeMutAssign(attrs, field_name, config) ==
    IF config.name = field_name
        THEN [attrs EXCEPT !.getter = config.getter,
                           !.setter = config.setter]
        ELSE attrs

MergeMutAnyName(attrs, field_name, config) ==
    [attrs EXCEPT !.getter = attrs.getter \/ config.getter,
                  !.setter = attrs.setter \/ config.setter]

MergeConfig(attrs, field_name, config) ==
    IF config.name = field_name
        THEN [attrs EXCEPT !.getter = attrs.getter \/ config.getter,
                           !.setter = attrs.setter \/ config.setter]
        ELSE attrs

RECURSIVE MergeStructLevel(_, _, _, _)
MergeStructLevel(attrs, field_name, entries, i) ==
    IF i > Len(entries) THEN attrs
    ELSE MergeStructLevel(
            MergeConfig(attrs, field_name, FieldConfigParse(entries[i])),
            field_name, entries, i + 1)

\* syn::Meta::parse on one element of an entry's nested list
IsMeta(m) == m # "42"

\* attr.parse_args_with(..) is Ok: every entry of the list parses.
StructListParses(entries) ==
    \A j \in 1..Len(entries) :
        \A k \in 1..Len(entries[j].metas) : IsMeta(entries[j].metas[k])

\* FieldAttributes::from_field: field level first, struct level second; a
\* struct-level list that does not parse is passed over (if let Ok).
from_field(field, sattrs) ==
    LET field_level == ParseNestedMeta(InitialAttributes, field.attrs, 1)
    IN  IF StructListParses(sattrs)
            THEN MergeStructLevel(field_level, field.name, sattrs, 1)
            ELSE field_level

----------------------------------------------------------------------------
(* builder.rs: what expand_builder emits for one field *)

Range(s) == {s[i] : i \in 1..Len(s)}

Emit(name, strategy, expr) ==
    [name |-> name, strategy |-> strategy, expr |-> expr]

RequireOrError(name) == Emit(name, "ok_or_else", "")

\* expr.parse::<TokenStream>() is Ok
ParsesAsTokens(text) == text # "("

CompileError == "compile_error!(Invalid default expression)"

EmitDefault(name, default) ==
    IF default.tag = "Default"
        THEN Emit(name, "unwrap_or_default", "")
        ELSE Emit(name, "unwrap_or_else",
                  IF ParsesAsTokens(default.expr) THEN default.expr
                                                  ELSE CompileError)

\* build_fields for a participating field
StrictMutOptionalFirst(name, attrs) ==
    IF attrs.required THEN RequireOrError(name)
    ELSE IF attrs.optional THEN Emit(name, "unwrap_or", "")
    ELSE IF attrs.default.tag # "None" THEN EmitDefault(name, attrs.default)
    ELSE RequireOrError(name)

StrictMutNoDefaults(name, attrs) ==
    IF attrs.required THEN RequireOrError(name)
    ELSE IF attrs.optional THEN Emit(name, "unwrap_or", "")
    ELSE RequireOrError(name)

StrictMutTraitDefaultOnly(name, attrs) ==
    IF attrs.required THEN RequireOrError(name)
    ELSE IF attrs.default.tag # "None"
        THEN Emit(name, "unwrap_or_default", "")
    ELSE IF attrs.optional THEN Emit(name, "unwrap_or", "")
    ELSE RequireOrError(name)

StrictStrategy(name, attrs) ==
    IF attrs.required THEN RequireOrError(name)
    ELSE IF attrs.default.tag # "None" THEN EmitDefault(name, attrs.default)
    ELSE IF attrs.optional THEN Emit(name, "unwrap_or", "")
    ELSE RequireOrError(name)

\* build_with_defaults_fields for a participating field
DefaultingMutInventsValue(name, attrs) ==
    IF attrs.default.tag # "None" THEN EmitDefault(name, attrs.default)
    ELSE IF attrs.optional THEN Emit(name, "unwrap_or", "")
    ELSE Emit(name, "unwrap_or_default", "")

DefaultingMutTraitDefaultOnly(name, attrs) ==
    IF attrs.default.tag # "None" THEN Emit(name, "unwrap_or_default", "")
    ELSE IF attrs.optional THEN Emit(name, "unwrap_or", "")
    ELSE RequireOrError(name)

DefaultingStrategy(name, attrs) ==
    IF attrs.default.tag # "None" THEN EmitDefault(name, attrs.default)
    ELSE IF attrs.optional THEN Emit(name, "unwrap_or", "")
    ELSE RequireOrError(name)

\* Either list, for a field that is not on the builder
SkippedMutRequire(name) == RequireOrError(name)

SkippedStrategy(name) == Emit(name, "Default::default", "")

\* if attrs.builder: whether the field is on the builder
ParticipatesMutIgnoresSkip(attrs) == TRUE

Participates(attrs) == attrs.builder

EmptyCode ==
    [ field_defs |-> <<>>, builder_field_defs |-> <<>>,
      builder_methods |-> <<>>, build_fields |-> <<>>,
      build_with_defaults_fields |-> <<>>, getters |-> <<>>, setters |-> <<>>,
      builder_impl |-> <<>> ]

\* One turn of `for field in fields.named.iter()`: the pushes for one field.
ExpandField(acc, field, sattrs) ==
    LET name == field.name
        attrs == from_field(field, sattrs)
    IN  [ field_defs |-> Append(acc.field_defs, name),
          builder_field_defs |->
              IF Participates(attrs) THEN Append(acc.builder_field_defs, name)
                               ELSE acc.builder_field_defs,
          builder_methods |->
              IF Participates(attrs) THEN Append(acc.builder_methods, name)
                               ELSE acc.builder_methods,
          build_fields |->
              Append(acc.build_fields,
                     IF Participates(attrs) THEN StrictStrategy(name, attrs)
                                      ELSE SkippedStrategy(name)),
          build_with_defaults_fields |->
              Append(acc.build_with_defaults_fields,
                     IF Participates(attrs) THEN DefaultingStrategy(name, attrs)
                                      ELSE SkippedStrategy(name)),
          getters |-> IF attrs.getter THEN Append(acc.getters, name)
                                      ELSE acc.getters,
          setters |-> IF attrs.setter THEN Append(acc.setters, name)
                                      ELSE acc.setters,
          builder_impl |-> acc.builder_impl ]

RECURSIVE ExpandFrom(_, _, _, _)
ExpandFrom(acc, fs, sattrs, i) ==
    IF i > Len(fs) THEN acc
    ELSE ExpandFrom(ExpandField(acc, fs[i], sattrs), fs, sattrs, i + 1)

\* The final quote!: the builder's impl block holds new(), the chainable
\* setters, build() and build_with_defaults().
EmitImpl(c) ==
    [c EXCEPT !.builder_impl =
        <<"new">> \o c.builder_methods \o <<"build", "build_with_defaults">>]

\* A record without fields gets new() and build() only.
ExpandMutFieldlessStrictOnly(fs, sattrs) ==
    LET c == ExpandFrom(EmptyCode, fs, sattrs, 1)
    IN  IF Len(fs) = 0 THEN [c EXCEPT !.builder_impl = <<"new", "build">>]
                       ELSE EmitImpl(c)

\* match &input.data: only a struct with named fields is expanded.
NamedFields(sh) == sh = "named"

\* The host compiler stops at an emitted compile_error!.
HostCompiles(c) ==
    \A i \in 1..Len(c.build_fields) :
        /\ c.build_fields[i].expr # CompileError
        /\ c.build_with_defaults_fields[i].expr # CompileError

expand_builder(fs, sattrs) == EmitImpl(ExpandFrom(EmptyCode, fs, sattrs, 1))

----------------------------------------------------------------------------
(* The emitted builder, run *)

NoBuilder == [n \in {} |-> <<>>]

\* pub fn new() -> Self { Self { #(name: None),* } }
BuilderNew(c) == [n \in Range(c.builder_field_defs) |-> <<>>]

\* pub fn name(mut self, value) -> Self { self.name = Some(value); self }
SetterMutKeepsFirst(slots, name, value) ==
    IF slots[name] = <<>> THEN [slots EXCEPT ![name] = <<value>>] ELSE slots

Setter(slots, name, value) == [slots EXCEPT ![name] = <<value>>]

Ok(record) == [kind |-> "Ok", record |-> record, missing |-> ""]

Err(name) == [kind |-> "Err", record |-> <<>>, missing |-> name]

\* The expression emitted for one field of the struct literal: the value, or
\* the MissingDependency the `?` returns.
FieldExpr(e, slots) ==
    IF e.strategy = "ok_or_else"
        THEN IF slots[e.name] = <<>>
                THEN [ok |-> FALSE, value |-> e.name]
                ELSE [ok |-> TRUE, value |-> slots[e.name][1]]
    ELSE IF e.strategy = "unwrap_or_default"
        THEN [ok |-> TRUE,
              value |-> IF slots[e.name] = <<>> THEN TraitDefault
                                                ELSE slots[e.name][1]]
    ELSE IF e.strategy = "unwrap_or_else"
        THEN [ok |-> TRUE,
              value |-> IF slots[e.name] = <<>> THEN Eval(e.expr)
                                                ELSE slots[e.name][1]]
    ELSE IF e.strategy = "unwrap_or"
        THEN [ok |-> TRUE,
              value |-> IF slots[e.name] = <<>> THEN NoneValue
                                                ELSE slots[e.name][1]]
    ELSE [ok |-> TRUE, value |-> TraitDefault]

RECURSIVE StructLiteralMutLastError(_, _, _, _)
StructLiteralMutLastError(es, slots, i, acc) ==
    IF i > Len(es) THEN Ok(acc)
    ELSE LET r == FieldExpr(es[i], slots)
             rest == StructLiteralMutLastError(es, slots, i + 1,
                        Append(acc, [name |-> es[i].name, value |-> r.value]))
         IN  IF r.ok \/ rest.kind = "Err" THEN rest ELSE Err(r.value)

\* Ok(T { #(fields),* }): the fields are evaluated in the order written and
\* the first `?` that fails returns.
RECURSIVE StructLiteral(_, _, _, _)
StructLiteral(es, slots, i, acc) ==
    IF i > Len(es) THEN Ok(acc)
    ELSE LET r == FieldExpr(es[i], slots)
         IN  IF r.ok
                THEN StructLiteral(es, slots, i + 1,
                        Append(acc, [name |-> es[i].name, value |-> r.value]))
                ELSE Err(r.value)

\* pub fn get_name(&self) -> &T { &self.name }
get_field(svc, name) ==
    LET i == CHOOSE k \in 1..Len(svc) : svc[k].name = name
    IN  svc[i].value

\* pub fn set_name(&mut self, value: T) { self.name = value; }
SetFieldMutFirstField(svc, name, value) ==
    [svc EXCEPT ![1] = [@ EXCEPT !.value = value]]

set_field(svc, name, value) ==
    [i \in 1..Len(svc) |->
        IF svc[i].name = name THEN [svc[i] EXCEPT !.value = value]
                              ELSE svc[i]]

build(c, slots) == StructLiteral(c.build_fields, slots, 1, <<>>)

build_with_defaults(c, slots) ==
    StructLiteral(c.build_with_defaults_fields, slots, 1, <<>>)

----------------------------------------------------------------------------
(* The state machine *)

FieldDecl(i, ann) == [name |-> FieldNames[i], attrs |-> ann]

\* Records of up to MaxFields fields, each with one of the Annotations.
Records ==
    UNION { { [i \in 1..n |-> FieldDecl(i, ann[i])] :
                ann \in [1..n -> Annotations] } : n \in 0..MaxFields }

NoResult == [op |-> "", kind |-> "", record |-> <<>>, missing |-> ""]

Returned(op, r) ==
    [op |-> op, kind |-> r.kind, record |-> r.record, missing |-> r.missing]

Shapes == {"named", "tuple", "enum"}

NoAccess ==
    [ op |-> "", name |-> "", value |-> "", before |-> <<>>,
      set_name |-> "", set_value |-> "" ]

\* The annotations the accessors are explored with.
AccessAnnotations ==
    { <<Bare("default")>>,
      <<Bare("default"), Bare("getter")>>,
      <<Bare("default"), Bare("setter")>>,
      <<Bare("default"), Bare("getter"), Bare("setter")>>,
      <<Bare("skip"), Bare("getter"), Bare("setter")>> }

AccessRecords ==
    UNION { { [i \in 1..n |-> FieldDecl(i, ann[i])] :
                ann \in [1..n -> AccessAnnotations] } : n \in 1..MaxFields }

Init ==
    /\ pc = "declared"
    /\ shape \in Shapes
    /\ fields \in IF NamedFields(shape) THEN Records ELSE {<<>>}
    /\ struct_attrs = <<>>
    /\ code = EmptyCode
    /\ builder = NoBuilder
    /\ calls = <<>>
    /\ result = NoResult
    /\ service = <<>>
    /\ accessed = NoAccess

\* One field under every key list of up to MaxKeys keys and every
\* struct-level list of up to MaxEntries entries.
InitAttrs ==
    /\ pc = "declared"
    /\ shape = "named"
    /\ fields \in { <<FieldDecl(1, ann)>> : ann \in SeqsUpTo(AllKeys, MaxKeys) }
    /\ struct_attrs \in SeqsUpTo(StructEntries, MaxEntries)
    /\ code = EmptyCode
    /\ builder = NoBuilder
    /\ calls = <<>>
    /\ result = NoResult
    /\ service = <<>>
    /\ accessed = NoAccess

\* One field under key lists and struct-level lists that may be malformed.
InitMalformed ==
    /\ pc = "declared"
    /\ shape = "named"
    /\ fields \in { <<FieldDecl(1, ann)>> :
                      ann \in SeqsUpTo(AllKeys \cup MalformedKeys, MaxKeys) }
    /\ struct_attrs \in SeqsUpTo(StructEntries \cup MalformedEntries, MaxEntries)
    /\ code = EmptyCode
    /\ builder = NoBuilder
    /\ calls = <<>>
    /\ result = NoResult
    /\ service = <<>>
    /\ accessed = NoAccess

\* The synthesis pass: Err(..) for an unsupported shape, else the emitted code.
Expand ==
    /\ pc = "declared"
    /\ IF NamedFields(shape)
          THEN /\ code' = expand_builder(fields, struct_attrs)
               /\ pc' = "expanded"
          ELSE /\ code' = EmptyCode
               /\ pc' = "failed"
    /\ UNCHANGED <<shape, fields, struct_attrs, builder, calls, result, service, accessed>>

\* T::builder()
New ==
    /\ pc = "expanded"
    /\ HostCompiles(code)
    /\ "new" \in Range(code.builder_impl)
    /\ builder' = BuilderNew(code)
    /\ pc' = "building"
    /\ UNCHANGED <<shape, fields, struct_attrs, code, calls, result, service, accessed>>

\* builder.name(value), for a name that has a chainable setter
CallSetter ==
    /\ pc = "building"
    /\ Len(calls) < MaxCalls
    /\ \E name \in Range(code.builder_methods), value \in Values :
        /\ builder' = Setter(builder, name, value)
        /\ calls' = Append(calls, [name |-> name, value |-> value])
    /\ UNCHANGED <<pc, shape, fields, struct_attrs, code, result, service,
                   accessed>>

\* builder.build(); `builder` keeps the slots the call consumed.
Build ==
    /\ pc = "building"
    /\ "build" \in Range(code.builder_impl)
    /\ result' = Returned("build", build(code, builder))
    /\ service' = result'.record
    /\ pc' = "done"
    /\ UNCHANGED <<shape, fields, struct_attrs, code, builder, calls, accessed>>

\* builder.build_with_defaults()
BuildWithDefaults ==
    /\ pc = "building"
    /\ "build_with_defaults" \in Range(code.builder_impl)
    /\ result' = Returned("build_with_defaults",
                          build_with_defaults(code, builder))
    /\ service' = result'.record
    /\ pc' = "done"
    /\ UNCHANGED <<shape, fields, struct_attrs, code, builder, calls, accessed>>

\* service.set_name(value), for a name that has a write accessor
CallSet ==
    /\ pc = "done"
    /\ result.kind = "Ok"
    /\ \E name \in Range(code.setters), value \in Values :
        /\ service' = set_field(service, name, value)
        /\ accessed' = [ op |-> "set", name |-> name, value |-> value,
                         before |-> service,
                         set_name |-> name, set_value |-> value ]
    /\ UNCHANGED <<pc, shape, fields, struct_attrs, code, builder, calls,
                   result>>

\* service.get_name(), for a name that has a read accessor
CallGet ==
    /\ pc = "done"
    /\ result.kind = "Ok"
    /\ \E name \in Range(code.getters) :
        accessed' = [ op |-> "get", name |-> name,
                      value |-> get_field(service, name),
                      before |-> service,
                      set_name |-> accessed.set_name,
                      set_value |-> accessed.set_value ]
    /\ UNCHANGED <<pc, shape, fields, struct_attrs, code, builder, calls,
                   result, service>>

\* Records whose fields are all defaulted or skipped, with accessors granted
\* at field level and, for the first field, at struct level.
InitAccess ==
    /\ pc = "declared"
    /\ shape = "named"
    /\ fields \in AccessRecords
    /\ struct_attrs \in { <<>>, <<[name |-> "a", metas |-> <<"getter">>]>> }
    /\ code = EmptyCode
    /\ builder = NoBuilder
    /\ calls = <<>>
    /\ result = NoResult
    /\ service = <<>>
    /\ accessed = NoAccess

Next == Expand \/ New \/ CallSetter \/ Build \/ BuildWithDefaults

Spec == Init /\ [][Next]_vars

NextAttrs == Expand

SpecAttrs == InitAttrs /\ [][NextAttrs]_vars

NextMalformed == Expand \/ New

SpecMalformed == InitMalformed /\ [][NextMalformed]_vars

NextAccess == Expand \/ New \/ Build \/ BuildWithDefaults \/ CallSet \/ CallGet

SpecAccess == InitAccess /\ [][NextAccess]_vars

----------------------------------------------------------------------------
(* What the properties speak of, read off the declaration and the calls *)

Indices == 1..Len(fields)

HasKey(i, path) ==
    \E j \in 1..Len(fields[i].attrs) : fields[i].attrs[j].path = path

HasExprDefault(i) ==
    \E j \in 1..Len(fields[i].attrs) :
        fields[i].attrs[j].path = "default" /\ fields[i].attrs[j].value # ""

ExprOf(i) ==
    LET j == CHOOSE k \in 1..Len(fields[i].attrs) :
                fields[i].attrs[k].path = "default"
                /\ fields[i].attrs[k].value # ""
    IN  fields[i].attrs[j].value

Skipped(i) == HasKey(i, "skip")

\* A participating field with neither `optional` nor a default.
RequiredNoDefault(i) ==
    ~Skipped(i) /\ ~HasKey(i, "optional") /\ ~HasKey(i, "default")

\* The default the annotation declares for a field that is not required.
DeclaredDefault(i) ==
    IF HasExprDefault(i) THEN Eval(ExprOf(i))
    ELSE IF HasKey(i, "default") THEN TraitDefault
    ELSE NoneValue

CallsFor(name) == {j \in 1..Len(calls) : calls[j].name = name}

NeverSet(name) == CallsFor(name) = {}

LastValue(name) ==
    LET j == CHOOSE k \in CallsFor(name) : \A m \in CallsFor(name) : m <= k
    IN  calls[j].value

\* The required fields left unset, by index.
MissingRequired ==
    {i \in Indices : RequiredNoDefault(i) /\ NeverSet(fields[i].name)}

FirstMissing == CHOOSE i \in MissingRequired : \A k \in MissingRequired : i <= k

Finalized == pc = "done"

\* The value the finished record holds for the i-th declared field.
ValueOf(i) == result.record[i].value

----------------------------------------------------------------------------
(* C1 *)

\* C1 as stated: whenever a required field without a default was never set,
\* the finalization method returns MissingDependency carrying that field's
\* name, whatever else was set.
C1_AsStated ==
    Finalized =>
        \A i \in MissingRequired :
            result.kind = "Err" /\ result.missing = fields[i].name

\* C1, amended: whenever a required field without a default was never set,
\* build() and build_with_defaults() return MissingDependency; the name it
\* carries is that of a required field without a default that was never set,
\* and it is exactly that field's name when no other such field is unset.
C1_MissingRequiredFails ==
    Finalized =>
        \A i \in MissingRequired :
            /\ result.kind = "Err"
            /\ \E k \in MissingRequired : result.missing = fields[k].name
            /\ (MissingRequired = {i} => result.missing = fields[i].name)

\* build_with_defaults() failed on the one unset required field although
\* another field was set.
C1_Witness ==
    /\ Finalized
    /\ result.op = "build_with_defaults"
    /\ Len(fields) = 2
    /\ MissingRequired = {2}
    /\ ~NeverSet(fields[1].name)
    /\ result.kind = "Err"
    /\ result.missing = fields[2].name

----------------------------------------------------------------------------
(* C2 *)

----------------------------------------------------------------------------
(* C3 *)

AllOptionalOrDefaulted ==
    \A i \in Indices : HasKey(i, "optional") \/ HasKey(i, "default")

\* C3: when every field is optional or defaulted, build() and
\* build_with_defaults() on a fresh builder with no field set succeed.
C3_FreshBuilderSucceeds ==
    (Finalized /\ calls = <<>> /\ AllOptionalOrDefaulted) =>
        result.kind = "Ok"

\* build() succeeded on the fresh builder of a record of one defaulted and
\* one optional field.
C3_Witness ==
    /\ Finalized
    /\ result.op = "build"
    /\ calls = <<>>
    /\ Len(fields) = 2
    /\ HasKey(1, "default") /\ ~HasKey(1, "optional")
    /\ HasKey(2, "optional") /\ ~HasKey(2, "default")
    /\ result.kind = "Ok"

----------------------------------------------------------------------------
(* C4 *)

\* C4: when every required field has been set, build_with_defaults()
\* succeeds and every participating field holds the value last passed to its
\* setter if it was set, and otherwise its declared default: the value of
\* the expression, the trait default for bare `default`, None for
\* `optional`.
C4_DefaultingResult ==
    (Finalized /\ result.op = "build_with_defaults" /\ MissingRequired = {}) =>
        /\ result.kind = "Ok"
        /\ Len(result.record) = Len(fields)
        /\ \A i \in Indices :
              ~Skipped(i) =>
                  /\ result.record[i].name = fields[i].name
                  /\ ValueOf(i) = IF NeverSet(fields[i].name)
                                     THEN DeclaredDefault(i)
                                     ELSE LastValue(fields[i].name)

\* A required field set twice and an expression-defaulted field left unset.
C4_Witness ==
    /\ Finalized
    /\ result.op = "build_with_defaults"
    /\ result.kind = "Ok"
    /\ Len(fields) = 2
    /\ RequiredNoDefault(1)
    /\ Cardinality(CallsFor(fields[1].name)) = 2
    /\ calls[1].value # calls[2].value
    /\ ValueOf(1) = calls[2].value
    /\ HasExprDefault(2)
    /\ ValueOf(2) = "10000"

----------------------------------------------------------------------------
(* C5 *)

\* C5: the strict build() applies declared defaults too: when every required
\* field has been set, build() succeeds and a defaulted or optional field
\* that was not set holds its declared default.
C5_StrictAppliesDefaults ==
    (Finalized /\ result.op = "build" /\ MissingRequired = {}) =>
        /\ result.kind = "Ok"
        /\ \A i \in Indices :
              (/\ ~Skipped(i)
               /\ HasKey(i, "optional") \/ HasKey(i, "default")
               /\ NeverSet(fields[i].name)) => ValueOf(i) = DeclaredDefault(i)

\* build() with the required field set, the bare-default field left unset.
C5_Witness ==
    /\ Finalized
    /\ result.op = "build"
    /\ Len(fields) = 2
    /\ RequiredNoDefault(1)
    /\ ~NeverSet(fields[1].name)
    /\ fields[2].attrs = <<Bare("default")>>
    /\ NeverSet(fields[2].name)
    /\ result.kind = "Ok"
    /\ ValueOf(2) = TraitDefault

----------------------------------------------------------------------------
(* C6 *)

\* C6: for every field configuration and every builder state, build() and
\* build_with_defaults() are emitted with the same strategy per field and
\* return the same result: equal records, or the same MissingDependency.
C6_SameResult ==
    /\ code.build_fields = code.build_with_defaults_fields
    /\ pc \in {"building", "done"} =>
          build(code, builder) = build_with_defaults(code, builder)
    /\ Finalized =>
          /\ Returned(result.op, build(code, builder)) = result
          /\ Returned(result.op, build_with_defaults(code, builder)) = result

\* build_with_defaults() returned a record holding a default, a None and a
\* value that was set; build() returns the same on that builder.
C6_Witness ==
    /\ Finalized
    /\ result.op = "build_with_defaults"
    /\ result.kind = "Ok"
    /\ Len(fields) = 2
    /\ fields[1].attrs = <<Bare("optional"), Bare("default")>>
    /\ RequiredNoDefault(2)
    /\ build(code, builder).kind = "Ok"

----------------------------------------------------------------------------
(* C7 *)

\* C7: after any sequence of chainable setter calls on a fresh builder, each
\* slot holds the value of the last call made for its field, and is absent
\* if no call was made for it.
C7_LastSetWins ==
    pc \in {"building", "done"} =>
        \A name \in DOMAIN builder :
            builder[name] = IF NeverSet(name) THEN <<>>
                                              ELSE <<LastValue(name)>>

\* The same field set twice, to different values; the other slot absent.
C7_Witness ==
    /\ pc = "building"
    /\ Len(calls) = 2
    /\ calls[1].name = calls[2].name
    /\ calls[1].value # calls[2].value
    /\ builder[calls[2].name] = <<calls[2].value>>
    /\ \E name \in DOMAIN builder : builder[name] = <<>>

----------------------------------------------------------------------------
(* C8 *)

\* C8: a `skip` field has no slot and no chainable setter on the builder,
\* and every record build() or build_with_defaults() returns holds the trait
\* default for it, whatever the builder state and the field's other keys.
C8_SkippedField ==
    \A i \in Indices :
        Skipped(i) =>
            /\ pc # "declared" =>
                  /\ fields[i].name \notin Range(code.builder_field_defs)
                  /\ fields[i].name \notin Range(code.builder_methods)
            /\ pc \in {"building", "done"} =>
                  fields[i].name \notin DOMAIN builder
            /\ (Finalized /\ result.kind = "Ok") => ValueOf(i) = TraitDefault

\* A record returned with its `skip, default = "10_000"` field at the trait
\* default, the other field set.
C8_Witness ==
    /\ Finalized
    /\ result.kind = "Ok"
    /\ Len(fields) = 2
    /\ fields[2].attrs = <<Bare("skip"), DefaultExpr>>
    /\ ~NeverSet(fields[1].name)
    /\ DOMAIN builder = {fields[1].name}
    /\ ValueOf(2) = TraitDefault

----------------------------------------------------------------------------
(* C9 *)

StructGrants(name, what) ==
    \E j \in 1..Len(struct_attrs) :
        /\ struct_attrs[j].name = name
        /\ \E k \in 1..Len(struct_attrs[j].metas) :
              struct_attrs[j].metas[k] = what

FieldLevel(i) == ParseNestedMeta(InitialAttributes, fields[i].attrs, 1)

\* C9: struct-level getter/setter grants are OR-ed into the field-level
\* configuration: a field is getter (setter) enabled iff it was granted at
\* field level or at struct level, and the merge changes none of
\* participates, required and default.
C9_StructLevelAdds ==
    pc = "expanded" =>
        \A i \in Indices :
            LET name == fields[i].name
                merged == from_field(fields[i], struct_attrs)
            IN  /\ name \in Range(code.getters)
                      <=> (HasKey(i, "getter") \/ StructGrants(name, "getter"))
                /\ name \in Range(code.setters)
                      <=> (HasKey(i, "setter") \/ StructGrants(name, "setter"))
                /\ merged.builder = FieldLevel(i).builder
                /\ merged.required = FieldLevel(i).required
                /\ merged.default = FieldLevel(i).default
                /\ merged.optional = FieldLevel(i).optional
                /\ code.build_fields
                      = expand_builder(fields, <<>>).build_fields
                /\ code.builder_field_defs
                      = expand_builder(fields, <<>>).builder_field_defs

\* `optional, setter` at field level and getter granted at struct level: the
\* field is optional, getter enabled and still setter enabled.
C9_Witness ==
    /\ pc = "expanded"
    /\ fields[1].attrs = <<Bare("optional"), Bare("setter")>>
    /\ struct_attrs = <<[name |-> "a", metas |-> <<"getter">>]>>
    /\ code.getters = <<"a">>
    /\ code.setters = <<"a">>
    /\ code.build_fields[1].strategy = "unwrap_or"

----------------------------------------------------------------------------
(* C10 *)

\* C10: a field marked both `optional` and `default = "expr"`, in either
\* order, resolves to the expression: when it is not set, build() and
\* build_with_defaults() never fail on it and produce the expression's value.
C10_ExpressionBeatsOptional ==
    Finalized =>
        \A i \in Indices :
            (/\ ~Skipped(i)
             /\ HasKey(i, "optional")
             /\ HasExprDefault(i)
             /\ NeverSet(fields[i].name)) =>
                /\ result.missing # fields[i].name
                /\ result.kind = "Ok" => ValueOf(i) = Eval(ExprOf(i))
                /\ code.build_fields[i].strategy = "unwrap_or_else"
                /\ code.build_with_defaults_fields[i].strategy
                      = "unwrap_or_else"

\* build() produced 10000 for an unset `default = "10_000", optional` field.
C10_Witness ==
    /\ Finalized
    /\ result.op = "build"
    /\ result.kind = "Ok"
    /\ \E i \in Indices :
          /\ fields[i].attrs = <<DefaultExpr, Bare("optional")>>
          /\ NeverSet(fields[i].name)
          /\ ValueOf(i) = "10000"

----------------------------------------------------------------------------
(* C11 *)

\* C11: for a record without fields the generator still emits a field-less
\* builder type with new(), build() and build_with_defaults(), and both
\* finalization methods succeed on its builder and return the record.
C11_FieldlessRecord ==
    (NamedFields(shape) /\ Len(fields) = 0) =>
        /\ pc # "declared" =>
              /\ code.builder_field_defs = <<>>
              /\ code.builder_impl = <<"new", "build", "build_with_defaults">>
        /\ pc = "building" => (ENABLED Build /\ ENABLED BuildWithDefaults)
        /\ Finalized =>
              /\ builder = NoBuilder
              /\ result.kind = "Ok"
              /\ result.record = <<>>

\* build_with_defaults() returned the record without fields.
C11_Witness ==
    /\ Finalized
    /\ shape = "named"
    /\ Len(fields) = 0
    /\ result.op = "build_with_defaults"
    /\ result.kind = "Ok"

----------------------------------------------------------------------------
(* C12 *)

MalformedKeyAt(i) ==
    \E j \in 1..Len(fields[i].attrs) : fields[i].attrs[j] \in MalformedKeys

MalformedAnnotation ==
    \/ \E i \in Indices : MalformedKeyAt(i)
    \/ \E j \in 1..Len(struct_attrs) : struct_attrs[j] \in MalformedEntries

\* C12: a malformed annotation (an unparsable field-level key, an unparsable
\* struct-level nested list, an unparsable default expression) ends the
\* synthesis pass in a failure with no code emitted; the pass never completes
\* normally on the part of the annotation read before the malformed
\* construct.
C12_MalformedIsFatal ==
    (pc # "declared" /\ MalformedAnnotation) =>
        /\ pc = "failed"
        /\ code = EmptyCode

----------------------------------------------------------------------------
(* C13 *)

Perms(n) == {p \in [1..n -> 1..n] : \A i, j \in 1..n : p[i] = p[j] => i = j}

Reordered(keys, p) == [j \in 1..Len(keys) |-> keys[p[j]]]

\* What a recognized key asks of the field configuration.
KeyInEffect(key, attrs) ==
    IF key.path = "getter" THEN attrs.getter
    ELSE IF key.path = "setter" THEN attrs.setter
    ELSE IF key.path = "skip" THEN ~attrs.builder
    ELSE IF key.path = "optional" THEN ~attrs.required /\ attrs.optional
    ELSE IF key.value = ""
        THEN ~attrs.required /\ attrs.default = DefaultValueDefault
    ELSE ~attrs.required /\ attrs.default = DefaultValueExpression(key.value)

\* Every key of the i-th field's list is in effect, and every reordering of
\* the list gives the same configuration and the same emitted code.
Additive(i) ==
    LET keys == fields[i].attrs
        attrs == from_field(fields[i], struct_attrs)
    IN  /\ \A j \in 1..Len(keys) : KeyInEffect(keys[j], attrs)
        /\ \A p \in Perms(Len(keys)) :
              LET other == [fields EXCEPT ![i].attrs = Reordered(keys, p)]
              IN  /\ from_field(other[i], struct_attrs) = attrs
                  /\ expand_builder(other, struct_attrs) = code

DefaultForms(i) ==
    {fields[i].attrs[j] : j \in {k \in 1..Len(fields[i].attrs) :
                                    fields[i].attrs[k].path = "default"}}

----------------------------------------------------------------------------
(* C14 *)

UnknownName(entry) == \A i \in Indices : fields[i].name # entry.name

RemoveAt(seq, j) == SubSeq(seq, 1, j - 1) \o SubSeq(seq, j + 1, Len(seq))

\* C14: a struct-level entry whose name matches no field is silently
\* ignored: the pass completes, and the configuration of every field and the
\* emitted code are what they would be with that entry removed.
C14_UnknownNameIgnored ==
    \A j \in 1..Len(struct_attrs) :
        UnknownName(struct_attrs[j]) =>
            /\ pc \in {"declared", "expanded"}
            /\ pc = "expanded" =>
                  /\ code = expand_builder(fields, RemoveAt(struct_attrs, j))
                  /\ \A i \in Indices :
                        from_field(fields[i], struct_attrs)
                            = from_field(fields[i], RemoveAt(struct_attrs, j))

\* zz(getter, setter) on a record without a field zz: no accessor emitted.
C14_Witness ==
    /\ pc = "expanded"
    /\ struct_attrs = <<[name |-> "zz", metas |-> <<"getter", "setter">>]>>
    /\ fields[1].attrs = <<>>
    /\ code.getters = <<>>
    /\ code.setters = <<>>

----------------------------------------------------------------------------
(* C15 *)

Enabled(i, what) ==
    HasKey(i, what) \/ StructGrants(fields[i].name, what)

IndexOf(name) == CHOOSE i \in Indices : fields[i].name = name

\* C15: the record type gets get_<field> exactly for the fields with getter
\* enabled and set_<field> exactly for the fields with setter enabled;
\* set_<field>(v) changes only that field, after which get_<field> returns v.
C15_Accessors ==
    /\ pc \notin {"declared", "failed"} =>
          \A i \in Indices :
              /\ fields[i].name \in Range(code.getters) <=> Enabled(i, "getter")
              /\ fields[i].name \in Range(code.setters) <=> Enabled(i, "setter")
    /\ accessed.op = "set" =>
          /\ Enabled(IndexOf(accessed.name), "setter")
          /\ Len(service) = Len(accessed.before)
          /\ \A i \in Indices :
                /\ service[i].name = fields[i].name
                /\ service[i].value = IF i = IndexOf(accessed.name)
                                         THEN accessed.value
                                         ELSE accessed.before[i].value
          /\ Enabled(IndexOf(accessed.name), "getter") =>
                get_field(service, accessed.name) = accessed.value
    /\ accessed.op = "get" =>
          /\ Enabled(IndexOf(accessed.name), "getter")
          /\ accessed.value = service[IndexOf(accessed.name)].value
          /\ accessed.name = accessed.set_name =>
                accessed.value = accessed.set_value
          /\ service = accessed.before

\* get_b() returned the value set_b() had written over the default; a kept
\* its value.
C15_Witness ==
    /\ accessed.op = "get"
    /\ Len(fields) = 2
    /\ accessed.name = "b"
    /\ accessed.set_name = "b"
    /\ accessed.value = "v2"
    /\ result.record[2].value = TraitDefault
    /\ service[1] = result.record[1]

----------------------------------------------------------------------------
(* C16 *)

IsSkipOrAccessorKey(key) == key.path \in {"skip", "getter", "setter"}

NamesSkipped(entry) ==
    \E i \in Indices : Skipped(i) /\ fields[i].name = entry.name

\* The declaration with every skipped field annotated `skip` alone and no
\* struct-level entry naming a skipped field.
SkipAloneFields ==
    [i \in Indices |->
        IF Skipped(i) THEN [fields[i] EXCEPT !.attrs = <<Bare("skip")>>]
                      ELSE fields[i]]

SkipAloneEntries == SelectSeq(struct_attrs, LAMBDA e : ~NamesSkipped(e))

\* The declaration with every skipped field keeping only its skip, getter
\* and setter keys.
SkipAndAccessorFields ==
    [i \in Indices |->
        IF Skipped(i)
            THEN [fields[i] EXCEPT
                    !.attrs = SelectSeq(@, IsSkipOrAccessorKey)]
            ELSE fields[i]]

\* C16 as stated: for a `skip` field the required, default, getter and
\* setter settings are all ignored: whatever other keys the field or a
\* struct-level entry gives it, the emitted code is that of `skip` alone.
C16_AsStated ==
    pc = "expanded" => code = expand_builder(SkipAloneFields, SkipAloneEntries)

\* C16, amended: for a `skip` field the required and default settings are
\* ignored: whatever other keys it carries, it has no builder slot and no
\* chainable setter and is the trait default in both struct literals, as with
\* `skip` alone; its getter and setter flags still decide whether get_ and
\* set_ are emitted.
C16_SkipIgnoresRequiredAndDefault ==
    pc = "expanded" =>
        /\ code = expand_builder(SkipAndAccessorFields, struct_attrs)
        /\ \A i \in Indices :
              Skipped(i) =>
                  /\ code.build_fields[i] = Emit(fields[i].name, "Default::default", "")
                  /\ code.build_with_defaults_fields[i] = code.build_fields[i]
                  /\ code.build_fields
                        = expand_builder(SkipAloneFields, SkipAloneEntries).build_fields
                  /\ code.builder_impl
                        = expand_builder(SkipAloneFields, SkipAloneEntries).builder_impl
                  /\ fields[i].name \in Range(code.getters)
                        <=> Enabled(i, "getter")
                  /\ fields[i].name \in Range(code.setters)
                        <=> Enabled(i, "setter")

\* `default = "10_000", skip` with getter granted at struct level: the trait
\* default in the struct literal, no slot, and get_a emitted.
C16_Witness ==
    /\ pc = "expanded"
    /\ fields[1].attrs = <<DefaultExpr, Bare("skip")>>
    /\ struct_attrs = <<[name |-> "a", metas |-> <<"getter">>]>>
    /\ code.build_fields[1].strategy = "Default::default"
    /\ code.builder_field_defs = <<>>
    /\ code.getters = <<"a">>

============================================================================
